---- MODULE Spec2Model ----
(***************************************************************************)
(* Cycle-stepped scheduler of core_simulator.py (Task, Core, CPUSimulator) *)
(* and its bounded-run subclass of cycle_analysis.py                       *)
(* (CycleControlledSimulator).                                             *)
(*                                                                         *)
(* Numbers.  The program computes with Python numbers; the model uses      *)
(* exact fixed point.  Work (difficulty, remaining, speed, threshold) is   *)
(* counted in half units, so speed 1.5 is 3 and difficulty 5 is 10.        *)
(* Energy multipliers are counted in hundredths (1.33 is 133), so energy   *)
(* is counted in 1/200 units: 12.64 is 2528.                               *)
(*                                                                         *)
(* A Task object is its index in self.tasks; None is 0.  A queue or a core *)
(* slot holds an index, so two references to one Task share `remaining`,   *)
(* as they do in the program.                                              *)
(***************************************************************************)
EXTENDS Integers, Sequences, FiniteSets

\* ---------------------------------------------------------------- bounds
MaxTasks == 3       \* longest task list drawn
MaxCores == 2       \* most cores drawn per pool
MaxCap == 3         \* largest max_cycles drawn
MaxCycle == 20      \* a run is followed for at most this many cycles
MaxHang == 5        \* and for this many when the simulator has no core at all

\* ------------------------------------------------------ program constants
Unit == 2                   \* half units per work unit
default_perf_speed == 3     \* perf_speed=1.5
default_eff_speed == 2      \* eff_speed=1.0
perf_energy == 133          \* perf_energy=1.33
eff_energy == 100           \* eff_energy=1.0
default_threshold == 2      \* threshold=2 (work units)
high_threshold == 10        \* threshold=10 of stress_test.py (work units)
estimate_perf_speed == 3    \* the 1.5 of estimate_remaining_cycles
estimate_eff_speed == 2     \* the 1.0 of estimate_remaining_cycles

\* ------------------------------------------------------------ input sets
Difficulties == {0, 2, 3}                        \* work units
Degenerate == {-1}                               \* a negative difficulty
Thresholds == {default_threshold}                \* work units
SpeedPairs == {<<default_perf_speed, default_eff_speed>>, <<4, 2>>}   \* (1.5, 1.0), (2.0, 1.0)

RECURSIVE SeqsUpTo(_, _)
SeqsUpTo(S, n) ==
    IF n = 0 THEN {<<>>}
    ELSE LET shorter == SeqsUpTo(S, n - 1)
         IN  shorter \cup {Append(q, x) : q \in {r \in shorter : Len(r) = n - 1}, x \in S}

\* lists of up to MaxTasks tasks; the lists with a negative difficulty are
\* one task shorter
TaskLists ==
    SeqsUpTo(Difficulties, MaxTasks)
        \cup SeqsUpTo(Difficulties \cup Degenerate, MaxTasks - 1)

\* the task lists of the worked example (A5, B2, C3) and of the scenarios of
\* quick_cycle_demo.py, and the empty list
ScenarioLists == {<<5, 2, 3>>, <<3, 2>>, <<1>>, <<>>}

\* the "High Threshold" case of stress_test.py: four tasks on 2 P + 2 E cores
\* with threshold 10
HighThresholdLists == {<<5, 8, 12, 2>>}

VARIABLES
    tasks,              \* self.tasks: difficulty of each Task, half units
    remaining,          \* Task.remaining of each Task, half units
    threshold,          \* self.threshold, half units
    perf_speed,         \* Core.speed of every P core
    eff_speed,          \* Core.speed of every E core
    perf_cores,         \* self.perf_cores: [task, energy_used] each
    eff_cores,          \* self.eff_cores
    wait_queue_perf,    \* self.wait_queue_perf
    wait_queue_eff,     \* self.wait_queue_eff
    completed_tasks,    \* self.completed_tasks
    cycle,              \* self.cycle
    total_energy,       \* self.total_energy
    total_tasks,        \* the local total_tasks of the running call
    max_cycles,         \* self.max_cycles (-1 is None)
    result,             \* the record run_for_max_cycles returned
    estimate,           \* what estimate_remaining_cycles() last returned
    call,               \* the method running or last run
    pc,                 \* where that method is
    runs,               \* how many run_* calls this simulator has seen
    ran_on,             \* per task, the core types assign_task() gave it to
    held,               \* per task, the cycle of its last dispatch and the
                        \* cycle in which it was last detached (0: none)
    work_performed      \* sum of work_done over all process() calls so far

vars == <<tasks, remaining, threshold, perf_speed, eff_speed, perf_cores,
          eff_cores, wait_queue_perf, wait_queue_eff, completed_tasks, cycle,
          total_energy, total_tasks, max_cycles, result, estimate, call, pc,
          runs, ran_on, held, work_performed>>

config == <<tasks, threshold, perf_speed, eff_speed>>

None == 0

\* the element of a one-element set; The({F(v) : v \in {e}}) is F(e) with e
\* evaluated once
The(S) == CHOOSE x \in S : TRUE
\* no record returned yet
NoResult == [cycles_used |-> -1, max_cycles |-> -1, tasks_completed |-> -1,
             total_tasks |-> -1, completion_rate |-> <<0, 1>>,
             energy_used |-> -1, fully_completed |-> FALSE]

\* estimate_remaining_cycles not called yet
NoEstimate == [kind |-> "none", value |-> 0]
\* float('inf')
Infinity == [kind |-> "inf", value |-> 0]

\* ----------------------------------------------------------------- Core
NewCore == [task |-> None, energy_used |-> 0]

is_idle_always(core) == TRUE

is_idle(core) == core.task = None

assign_task_dropped(core, task) == core

assign_task(core, task) == [core EXCEPT !.task = task]

Min(a, b) == IF a <= b THEN a ELSE b

work_done_full_speed(task_remaining, speed) == speed

work_done_half_speed(task_remaining, speed) == Min(task_remaining, speed \div 2)

work_done(task_remaining, speed) == Min(task_remaining, speed)

remaining_after_assigned(task_remaining, done) == done

remaining_after(task_remaining, done) == task_remaining - done

energy_after_per_cycle(energy_used, done, energy_multiplier) ==
    energy_used + energy_multiplier

energy_after(energy_used, done, energy_multiplier) ==
    energy_used + done * energy_multiplier

is_finished_strict(task_remaining) == task_remaining < 0

is_finished(task_remaining) == task_remaining <= 0

\* Core.process on a core of the given speed and multiplier, with `rem` the
\* remaining of every task: the core, the remainings, the task returned
\* (None when nothing finished) and the work done.
process(core, speed, energy_multiplier, rem) ==
    IF core.task = None
    THEN [core |-> core, remaining |-> rem, finished |-> None, done |-> 0]
    ELSE LET t == core.task
             w == work_done(rem[t], speed)
             r == remaining_after(rem[t], w)
             e == energy_after(core.energy_used, w, energy_multiplier)
         IN  [core |-> [task |-> IF is_finished(r) THEN None ELSE t,
                        energy_used |-> e],
              remaining |-> [rem EXCEPT ![t] = r],
              finished |-> IF is_finished(r) THEN t ELSE None,
              done |-> w]

\* --------------------------------------------------------- CPUSimulator
\* CPUSimulator.__init__ on tasks, num_perf, num_eff, the speeds and the
\* threshold drawn from the given sets
Construct(lists, core_counts, speed_pairs, thresholds) ==
    /\ tasks \in {[i \in 1..Len(l) |-> Unit * l[i]] : l \in lists}
    /\ remaining = tasks
    /\ threshold \in {Unit * t : t \in thresholds}
    /\ \E sp \in speed_pairs : perf_speed = sp[1] /\ eff_speed = sp[2]
    /\ perf_cores \in {[i \in 1..n |-> NewCore] : n \in core_counts}
    /\ eff_cores \in {[i \in 1..n |-> NewCore] : n \in core_counts}
    /\ wait_queue_perf = <<>>
    /\ wait_queue_eff = <<>>
    /\ completed_tasks = <<>>
    /\ cycle = 0
    /\ total_energy = 0
    /\ total_tasks = 0
    /\ max_cycles = -1
    /\ result = NoResult
    /\ estimate = NoEstimate
    /\ call = "__init__"
    /\ pc = "constructed"
    /\ runs = 0
    /\ ran_on = [t \in 1..Len(tasks) |-> {}]
    /\ held = [t \in 1..Len(tasks) |-> [first |-> 0, last |-> 0]]
    /\ work_performed = 0

Init ==
    \/ Construct(TaskLists \cup ScenarioLists, 0..MaxCores, SpeedPairs, Thresholds)
    \/ Construct(HighThresholdLists, {2},
                 {<<default_perf_speed, default_eff_speed>>}, {high_threshold})

goes_to_perf_inclusive(difficulty, thr) == difficulty >= thr

goes_to_perf(difficulty, thr) == difficulty > thr

RECURSIVE assign_tasks(_, _, _, _, _)
\* assign_tasks from task i on: each task is appended to one of the queues
assign_tasks(ts, thr, qperf, qeff, i) ==
    IF i > Len(ts) THEN [wait_queue_perf |-> qperf, wait_queue_eff |-> qeff]
    ELSE IF goes_to_perf(ts[i], thr)
         THEN assign_tasks(ts, thr, Append(qperf, i), qeff, i + 1)
         ELSE assign_tasks(ts, thr, qperf, Append(qeff, i), i + 1)

RECURSIVE fill_cores_one(_, _, _, _)
fill_cores_one(cores, queue, given, i) ==
    IF i > Len(cores) THEN [cores |-> cores, queue |-> queue, given |-> given]
    ELSE IF is_idle(cores[i]) /\ queue # <<>>
         THEN [cores |-> [cores EXCEPT ![i] = assign_task(cores[i], Head(queue))],
               queue |-> Tail(queue),
               given |-> Append(given, Head(queue))]
         ELSE fill_cores_one(cores, queue, given, i + 1)

RECURSIVE fill_cores_lifo(_, _, _, _)
fill_cores_lifo(cores, queue, given, i) ==
    IF i > Len(cores) THEN [cores |-> cores, queue |-> queue, given |-> given]
    ELSE IF is_idle(cores[i]) /\ queue # <<>>
         THEN The({fill_cores_lifo(c, q, g, i + 1) :
                     c \in {[cores EXCEPT ![i] = assign_task(cores[i], queue[Len(queue)])]},
                     q \in {SubSeq(queue, 1, Len(queue) - 1)},
                     g \in {Append(given, queue[Len(queue)])}})
         ELSE fill_cores_lifo(cores, queue, given, i + 1)

RECURSIVE fill_cores(_, _, _, _)
\* one `for core in cores: if core.is_idle() and queue:` loop, from core i on;
\* `given` lists the tasks handed to assign_task() so far
fill_cores(cores, queue, given, i) ==
    IF i > Len(cores) THEN [cores |-> cores, queue |-> queue, given |-> given]
    ELSE IF is_idle(cores[i]) /\ queue # <<>>
         THEN The({fill_cores(c, q, g, i + 1) :
                     c \in {[cores EXCEPT ![i] = assign_task(cores[i], Head(queue))]},
                     q \in {Tail(queue)},
                     g \in {Append(given, Head(queue))}})
         ELSE fill_cores(cores, queue, given, i + 1)

NoIdleCore(cores) == \A i \in 1..Len(cores) : ~is_idle(cores[i])

fallback_when_busy(other_cores, queue) == NoIdleCore(other_cores) /\ queue # <<>>

fallback_never(other_cores, queue) == FALSE

\* `if not self.eff_cores and self.wait_queue_eff` (and its mirror)
fallback_applies(other_cores, queue) == Len(other_cores) = 0 /\ queue # <<>>

\* the two fallback blocks of assign_to_cores, after the primary loops left
\* p1 (P cores, perf queue) and e1 (E cores, eff queue)
fallbacks(p1, e1) ==
    LET p2 == IF fallback_applies(e1.cores, e1.queue)
              THEN fill_cores(p1.cores, e1.queue, p1.given, 1)
              ELSE [cores |-> p1.cores, queue |-> e1.queue, given |-> p1.given]
        e2 == IF fallback_applies(p1.cores, p1.queue)
              THEN fill_cores(e1.cores, p1.queue, e1.given, 1)
              ELSE [cores |-> e1.cores, queue |-> p1.queue, given |-> e1.given]
    IN  The({[perf_cores |-> x.cores, eff_cores |-> y.cores,
              wait_queue_perf |-> y.queue, wait_queue_eff |-> x.queue,
              given_perf |-> x.given, given_eff |-> y.given] :
                x \in {p2}, y \in {e2}})

assign_to_cores_fallback_first(pcores, ecores, qperf, qeff) ==
    LET p0 == IF fallback_applies(ecores, qeff)
              THEN fill_cores(pcores, qeff, <<>>, 1)
              ELSE [cores |-> pcores, queue |-> qeff, given |-> <<>>]
        e0 == IF fallback_applies(pcores, qperf)
              THEN fill_cores(ecores, qperf, <<>>, 1)
              ELSE [cores |-> ecores, queue |-> qperf, given |-> <<>>]
    IN  The({The({[perf_cores |-> p1.cores, eff_cores |-> e1.cores,
                   wait_queue_perf |-> p1.queue, wait_queue_eff |-> e1.queue,
                   given_perf |-> p1.given, given_eff |-> e1.given] :
                     p1 \in {fill_cores(x.cores, y.queue, x.given, 1)},
                     e1 \in {fill_cores(y.cores, x.queue, y.given, 1)}}) :
               x \in {p0}, y \in {e0}})

\* assign_to_cores: the two primary loops, then the two fallbacks
assign_to_cores(pcores, ecores, qperf, qeff) ==
    The({fallbacks(p1, e1) : p1 \in {fill_cores(pcores, qperf, <<>>, 1)},
                             e1 \in {fill_cores(ecores, qeff, <<>>, 1)}})

Elements(q) == {q[k] : k \in 1..Len(q)}

process_core_prepend(speed, energy_multiplier, st) ==
    The({[i |-> st.i + 1,
          cores |-> [st.cores EXCEPT ![st.i] = r.core],
          remaining |-> r.remaining,
          completed |-> IF r.finished # None
                        THEN <<r.finished>> \o st.completed
                        ELSE st.completed,
          done |-> st.done + r.done] :
            r \in {process(st.cores[st.i], speed, energy_multiplier, st.remaining)}})

\* one pass of the loop body of run_cycle, on core st.i of st.cores; st
\* carries the remainings, completed_tasks and the work done in this cycle
process_core(speed, energy_multiplier, st) ==
    The({[i |-> st.i + 1,
          cores |-> [st.cores EXCEPT ![st.i] = r.core],
          remaining |-> r.remaining,
          completed |-> IF r.finished # None
                        THEN Append(st.completed, r.finished)
                        ELSE st.completed,
          done |-> st.done + r.done] :
            r \in {process(st.cores[st.i], speed, energy_multiplier, st.remaining)}})

RECURSIVE process_cores(_, _, _)
\* the loop of run_cycle over st.cores from core st.i on
process_cores(speed, energy_multiplier, st) ==
    IF st.i > Len(st.cores) THEN st
    ELSE The({process_cores(speed, energy_multiplier, nxt) :
                nxt \in {process_core(speed, energy_multiplier, st)}})

\* run_cycle without the counter: perf_cores + eff_cores in that order
run_cycle(pcores, ecores, rem, completed) ==
    The({The({[perf_cores |-> p.cores, eff_cores |-> e.cores,
               remaining |-> e.remaining, completed_tasks |-> e.completed,
               done |-> e.done] :
                 e \in {process_cores(eff_speed, eff_energy,
                           [i |-> 1, cores |-> ecores, remaining |-> p.remaining,
                            completed |-> p.completed, done |-> p.done])}}) :
           p \in {process_cores(perf_speed, perf_energy,
                     [i |-> 1, cores |-> pcores, remaining |-> rem,
                      completed |-> completed, done |-> 0])}})

RECURSIVE sum_energy(_, _)
sum_energy(cores, i) ==
    IF i > Len(cores) THEN 0 ELSE cores[i].energy_used + sum_energy(cores, i + 1)

sum_perf_only(pcores, ecores) == sum_energy(pcores, 1)

sum_accumulated(pcores, ecores) ==
    total_energy + sum_energy(pcores, 1) + sum_energy(ecores, 1)

\* sum(core.energy_used for core in self.perf_cores + self.eff_cores)
sum_core_energy(pcores, ecores) == sum_energy(pcores, 1) + sum_energy(ecores, 1)

completion_rate_fraction(completed_count, total) == <<completed_count, total>>

\* len(self.completed_tasks) / total_tasks * 100 as the exact fraction
\* <<numerator, denominator>>
completion_rate(completed_count, total) == <<completed_count * 100, total>>

\* the record run_for_max_cycles returns
report(cycles_used, cap, completed_count, total, energy) ==
    [cycles_used |-> cycles_used,
     max_cycles |-> cap,
     tasks_completed |-> completed_count,
     total_tasks |-> total,
     completion_rate |-> completion_rate(completed_count, total),
     energy_used |-> energy,
     fully_completed |-> (total - completed_count = 0)]

RECURSIVE sum_queue_remaining(_, _, _)
\* `for task in queue: remaining_work += task.remaining`, from entry i on
sum_queue_remaining(queue, rem, i) ==
    IF i > Len(queue) THEN 0
    ELSE rem[queue[i]] + sum_queue_remaining(queue, rem, i + 1)

RECURSIVE sum_core_remaining(_, _, _)
\* `for core in cores: if core.task: remaining_work += core.task.remaining`
sum_core_remaining(cores, rem, i) ==
    IF i > Len(cores) THEN 0
    ELSE (IF cores[i].task # None THEN rem[cores[i].task] ELSE 0)
            + sum_core_remaining(cores, rem, i + 1)

\* int(a / b) for b > 0: the quotient truncated towards zero
int_div(a, b) == IF a >= 0 THEN a \div b ELSE -((-a) \div b)

\* estimate_remaining_cycles.  remaining_work is w half units and avg_speed
\* is (n_p * 1.5 + n_e * 1.0) / total_cores, so remaining_work / avg_speed is
\* w * total_cores / (n_p * 3 + n_e * 2).  The float quotient and the exact
\* one truncate to the same integer for every w and core count the model
\* reaches (they first differ for 1 P + 2 E cores at 17.5 units of work).
estimate_remaining_cycles(pcores, ecores, qperf, qeff, rem) ==
    LET remaining_work ==
            sum_queue_remaining(qperf, rem, 1) + sum_queue_remaining(qeff, rem, 1)
                + sum_core_remaining(pcores, rem, 1) + sum_core_remaining(ecores, rem, 1)
        total_cores == Len(pcores) + Len(ecores)
    IN  IF total_cores = 0 THEN Infinity
        ELSE [kind |-> "int",
              value |-> int_div(remaining_work * total_cores,
                                Len(pcores) * estimate_perf_speed
                                    + Len(ecores) * estimate_eff_speed) + 1]

below_cap_inclusive(cyc, cap) == cyc <= cap

\* `self.cycle < max_cycles`
below_cap(cyc, cap) == cyc < cap

while_condition_guarded ==
    /\ Len(perf_cores) + Len(eff_cores) > 0
    /\ Len(completed_tasks) < total_tasks
    /\ (call = "run_simulation" \/ below_cap(cycle, max_cycles))

\* the while condition of the running call
while_condition ==
    IF call = "run_simulation"
    THEN Len(completed_tasks) < total_tasks
    ELSE Len(completed_tasks) < total_tasks /\ below_cap(cycle, max_cycles)

\* the first lines of both run methods: assign_tasks(), then total_tasks
EnterRun(name) ==
    \E q \in {assign_tasks(tasks, threshold, wait_queue_perf, wait_queue_eff, 1)} :
        /\ wait_queue_perf' = q.wait_queue_perf
        /\ wait_queue_eff' = q.wait_queue_eff
        /\ total_tasks' = Len(q.wait_queue_perf) + Len(q.wait_queue_eff)
        /\ call' = name
        /\ pc' = "while"
        /\ runs' = runs + 1
        /\ UNCHANGED <<config, remaining, perf_cores, eff_cores,
                       completed_tasks, cycle, total_energy, result,
                       estimate, ran_on, held, work_performed>>

\* sim.run_simulation() on a new simulator
RunSimulation ==
    /\ pc = "constructed"
    /\ EnterRun("run_simulation")
    /\ UNCHANGED max_cycles

\* sim.run_for_max_cycles(cap) on a new simulator
RunForMaxCycles ==
    /\ pc = "constructed"
    /\ \E cap \in 0..MaxCap : max_cycles' = cap
    /\ EnterRun("run_for_max_cycles")

\* `if not result['fully_completed']: sim.run_simulation()` on the simulator
\* that run_for_max_cycles has just returned from
ContinueRunSimulation ==
    /\ pc = "returned"
    /\ call = "run_for_max_cycles"
    /\ ~result.fully_completed
    /\ EnterRun("run_simulation")
    /\ UNCHANGED max_cycles

\* self.assign_to_cores() in the loop body of either run method
AssignToCores ==
    /\ pc = "while"
    /\ while_condition
    /\ cycle < (IF Len(perf_cores) + Len(eff_cores) = 0 THEN MaxHang ELSE MaxCycle)
    /\ \E a \in {assign_to_cores(perf_cores, eff_cores, wait_queue_perf, wait_queue_eff)} :
           /\ perf_cores' = a.perf_cores
           /\ eff_cores' = a.eff_cores
           /\ wait_queue_perf' = a.wait_queue_perf
           /\ wait_queue_eff' = a.wait_queue_eff
           /\ ran_on' = [t \in DOMAIN ran_on |->
                            ran_on[t]
                            \cup (IF t \in Elements(a.given_perf) THEN {"P"} ELSE {})
                            \cup (IF t \in Elements(a.given_eff) THEN {"E"} ELSE {})]
           /\ held' = [t \in DOMAIN held |->
                          IF t \in Elements(a.given_perf) \cup Elements(a.given_eff)
                          THEN [first |-> cycle + 1, last |-> 0]
                          ELSE held[t]]
    /\ pc' = "run_cycle"
    /\ UNCHANGED <<config, remaining, completed_tasks, cycle, total_energy,
                   total_tasks, max_cycles, result, estimate, call, runs,
                   work_performed>>

\* self.run_cycle() in the loop body of either run method
RunCycle ==
    /\ pc = "run_cycle"
    /\ cycle' = cycle + 1
    /\ \E c \in {run_cycle(perf_cores, eff_cores, remaining, completed_tasks)} :
           /\ perf_cores' = c.perf_cores
           /\ eff_cores' = c.eff_cores
           /\ remaining' = c.remaining
           /\ completed_tasks' = c.completed_tasks
           /\ work_performed' = work_performed + c.done
           /\ held' = [t \in DOMAIN held |->
                          IF t \in Elements(SubSeq(c.completed_tasks,
                                                  Len(completed_tasks) + 1,
                                                  Len(c.completed_tasks)))
                          THEN [held[t] EXCEPT !.last = cycle + 1]
                          ELSE held[t]]
    /\ pc' = "while"
    /\ UNCHANGED <<config, wait_queue_perf, wait_queue_eff, total_energy,
                   total_tasks, max_cycles, result, estimate, call, runs,
                   ran_on>>

\* run_simulation leaves its loop, sums the energy and returns
ReturnRunSimulation ==
    /\ pc = "while"
    /\ call = "run_simulation"
    /\ ~while_condition
    /\ total_energy' = sum_core_energy(perf_cores, eff_cores)
    /\ pc' = "returned"
    /\ UNCHANGED <<config, remaining, perf_cores, eff_cores, wait_queue_perf,
                   wait_queue_eff, completed_tasks, cycle, total_tasks,
                   max_cycles, result, estimate, call, runs, ran_on, held,
                   work_performed>>

\* run_for_max_cycles leaves its loop, sums the energy, prints its analysis
\* (silent=False), which evaluates estimate_remaining_cycles() when tasks
\* remain, and returns its record
ReturnRunForMaxCycles ==
    /\ pc = "while"
    /\ call = "run_for_max_cycles"
    /\ ~while_condition
    /\ total_tasks # 0
    /\ total_energy' = sum_core_energy(perf_cores, eff_cores)
    /\ result' = report(cycle, max_cycles, Len(completed_tasks), total_tasks,
                        total_energy')
    /\ estimate' = IF total_tasks - Len(completed_tasks) > 0
                   THEN estimate_remaining_cycles(perf_cores, eff_cores,
                            wait_queue_perf, wait_queue_eff, remaining)
                   ELSE estimate
    /\ pc' = "returned"
    /\ UNCHANGED <<config, remaining, perf_cores, eff_cores, wait_queue_perf,
                   wait_queue_eff, completed_tasks, cycle, total_tasks,
                   max_cycles, call, runs, ran_on, held, work_performed>>

\* run_for_max_cycles leaves its loop and sums the energy; then
\* `len(self.completed_tasks) / total_tasks` with total_tasks == 0 raises
\* ZeroDivisionError
RaiseZeroDivisionError ==
    /\ pc = "while"
    /\ call = "run_for_max_cycles"
    /\ ~while_condition
    /\ total_tasks = 0
    /\ total_energy' = sum_core_energy(perf_cores, eff_cores)
    /\ pc' = "raised"
    /\ UNCHANGED <<config, remaining, perf_cores, eff_cores, wait_queue_perf,
                   wait_queue_eff, completed_tasks, cycle, total_tasks,
                   max_cycles, result, estimate, call, runs, ran_on, held,
                   work_performed>>

Next ==
    \/ RunSimulation
    \/ RunForMaxCycles
    \/ ContinueRunSimulation
    \/ AssignToCores
    \/ RunCycle
    \/ ReturnRunSimulation
    \/ ReturnRunForMaxCycles
    \/ RaiseZeroDivisionError

Spec == Init /\ [][Next]_vars

\* the program is one thread that runs every statement it reaches
FairSpec == Spec /\ WF_vars(Next)

\* ------------------------------------------------------------ properties
NumPerf == Len(perf_cores)
NumEff == Len(eff_cores)
TaskIds == 1..Len(tasks)
Heavy(t) == tasks[t] > threshold
Light(t) == tasks[t] <= threshold
OnPerfCore(t) == \E i \in 1..NumPerf : perf_cores[i].task = t
Completed(t) == \E k \in 1..Len(completed_tasks) : completed_tasks[k] = t
AllIdle == /\ \A i \in 1..NumPerf : perf_cores[i].task = None
           /\ \A i \in 1..NumEff : eff_cores[i].task = None
NonNegative == \A t \in TaskIds : tasks[t] >= 0
\* run_simulation has just been entered on a new simulator
FreshRunSimulation ==
    pc = "while" /\ call = "run_simulation" /\ runs = 1 /\ cycle = 0

\* C1 (queue affinity): with at least one P core and one E core, every task
\* held by a P core has difficulty > threshold and every task held by an E
\* core has difficulty <= threshold, in every reachable state; no task was
\* ever given to a core of the other type.
C1_QueueAffinity ==
    (NumPerf >= 1 /\ NumEff >= 1) =>
        /\ \A i \in 1..NumPerf :
              perf_cores[i].task # None => Heavy(perf_cores[i].task)
        /\ \A i \in 1..NumEff :
              eff_cores[i].task # None => Light(eff_cores[i].task)
        /\ \A t \in TaskIds :
              ran_on[t] \subseteq (IF Heavy(t) THEN {"P"} ELSE {"E"})

\* a dispatch has just left a heavy task queued behind a fully busy P pool
\* while an E core stays idle
C1_Witness ==
    /\ pc = "run_cycle"
    /\ NumPerf >= 1 /\ NumEff >= 1
    /\ \A i \in 1..NumPerf : perf_cores[i].task # None
    /\ wait_queue_perf # <<>>
    /\ \E i \in 1..NumEff : eff_cores[i].task = None
    /\ C1_QueueAffinity

\* C2 (fallback, liveness): a run_simulation with no E core and at least one
\* P core reaches a state where every light task has been given to a P core
\* and is completed; a run_simulation with no P core and at least one E core
\* reaches a state where every heavy task has been given to an E core and is
\* completed.
C2_FallbackLiveness ==
    (FreshRunSimulation /\ (NumEff = 0 \/ NumPerf = 0) /\ NumPerf + NumEff >= 1)
        ~> (\A t \in TaskIds :
              /\ (NumEff = 0 /\ Light(t)) => ("P" \in ran_on[t] /\ Completed(t))
              /\ (NumPerf = 0 /\ Heavy(t)) => ("E" \in ran_on[t] /\ Completed(t)))

\* a light task is running on a P core of a simulator without E cores, with
\* another light task behind it
C2_Witness ==
    /\ call = "run_simulation" /\ runs = 1
    /\ NumEff = 0 /\ NumPerf >= 1
    /\ \E t \in TaskIds : Light(t) /\ OnPerfCore(t) /\ remaining[t] > 0
    /\ \E t \in TaskIds : Light(t) /\ Completed(t) /\ "P" \in ran_on[t]

\* C3 (termination): a run_simulation over non-negative difficulties with at
\* least one core returns, and then completed_tasks has one entry per input
\* task, both queues are empty and every core is idle.
C3_Termination ==
    (FreshRunSimulation /\ NumPerf + NumEff >= 1 /\ NonNegative)
        ~> (/\ pc = "returned"
            /\ Len(completed_tasks) = Len(tasks)
            /\ wait_queue_perf = <<>>
            /\ wait_queue_eff = <<>>
            /\ AllIdle)

\* a run_simulation over three tasks has returned after several cycles
C3_Witness ==
    /\ pc = "returned" /\ call = "run_simulation" /\ runs = 1
    /\ NonNegative
    /\ Len(tasks) >= 3 /\ Len(completed_tasks) = Len(tasks)
    /\ cycle >= 4
    /\ AllIdle

\* the worked example: A5, B2, C3 on 1 P core (1.5, 1.33) and 1 E core
\* (1.0, 1.0) with threshold 2, run by run_simulation
WorkedExample ==
    /\ tasks = <<10, 4, 6>>
    /\ NumPerf = 1 /\ NumEff = 1
    /\ perf_speed = 3 /\ eff_speed = 2 /\ threshold = 4
    /\ call = "run_simulation" /\ runs = 1

\* C4 (worked example): A and C are routed to the perf queue and B to the
\* eff queue; the P core holds A in cycles 1-4 and C in cycles 5-6; the E
\* core holds B in cycles 1-2; the run ends with cycle = 6 and
\* total_energy = 12.64 = 10.64 (P core) + 2.0 (E core).
C4_WorkedExample ==
    WorkedExample =>
        /\ (pc = "while" /\ cycle = 0) =>
              wait_queue_perf = <<1, 3>> /\ wait_queue_eff = <<2>>
        /\ pc = "run_cycle" =>
              /\ perf_cores[1].task = (IF cycle < 4 THEN 1 ELSE 3)
              /\ eff_cores[1].task = (IF cycle < 2 THEN 2 ELSE None)
              /\ cycle < 6
        /\ pc = "while" =>
              completed_tasks = (IF cycle < 2 THEN <<>>
                                 ELSE IF cycle < 4 THEN <<2>>
                                 ELSE IF cycle < 6 THEN <<2, 1>>
                                 ELSE <<2, 1, 3>>)
        /\ pc = "returned" =>
              /\ cycle = 6
              /\ perf_cores[1].energy_used = 2128
              /\ eff_cores[1].energy_used = 400
              /\ total_energy = 2528

\* the worked example has returned
C4_Witness == WorkedExample /\ pc = "returned" /\ cycle = 6

\* C5 (run_for_max_cycles never fails): no call ends in an error.
C5_NeverFails == pc # "raised"

BoundedRun == call = "run_for_max_cycles"
BoundedReturned == BoundedRun /\ pc = "returned"

\* C6 (cycle cap): in a run_for_max_cycles with max_cycles >= 0 the cycle
\* counter never passes max_cycles; every iteration is one assign_to_cores
\* followed by one run_cycle that raises cycle by exactly 1, and a new
\* iteration starts only while cycle < max_cycles, so the cap is tested
\* between iterations only; the call ends for every configuration, zero cores
\* included; the record has cycles_used <= max_cycles, and cycles_used =
\* max_cycles whenever tasks remain.
C6_CycleCap ==
    /\ [](BoundedRun =>
            /\ max_cycles >= 0
            /\ cycle <= max_cycles
            /\ (pc = "run_cycle" => cycle < max_cycles)
            /\ (pc = "returned" =>
                  /\ result.cycles_used = cycle
                  /\ result.max_cycles = max_cycles
                  /\ result.cycles_used <= result.max_cycles
                  /\ (Len(completed_tasks) < total_tasks
                        => result.cycles_used = result.max_cycles)))
    /\ [][BoundedRun /\ BoundedRun' =>
            /\ (pc = "while" /\ pc' = "run_cycle" => cycle' = cycle)
            /\ (pc = "run_cycle" => pc' = "while" /\ cycle' = cycle + 1)]_vars
    /\ ((BoundedRun /\ pc = "while" /\ cycle = 0)
            ~> (BoundedRun /\ (pc = "returned" \/ pc = "raised")))

\* a bounded run on a simulator with cores has returned at its cap with tasks
\* left, after at least two iterations
C6_Witness ==
    /\ BoundedReturned
    /\ NumPerf + NumEff >= 1
    /\ max_cycles >= 2
    /\ cycle = max_cycles
    /\ Len(completed_tasks) >= 1
    /\ Len(completed_tasks) < total_tasks

\* C7 (bounded-run report): the record of a run_for_max_cycles over a
\* non-empty task list has tasks_completed = len(completed_tasks) <=
\* total_tasks = number of input tasks, completion_rate = 100 *
\* tasks_completed / total_tasks, and fully_completed iff tasks_completed =
\* total_tasks; A5, B2, C3 on 1P+1E with max_cycles = 3 gives cycles_used = 3
\* and fully_completed = false.
C7_BoundedReport ==
    BoundedReturned =>
        /\ Len(tasks) > 0
        /\ result.tasks_completed = Len(completed_tasks)
        /\ result.tasks_completed <= result.total_tasks
        /\ result.total_tasks = Len(tasks)
        /\ result.completion_rate[2] > 0
        /\ result.completion_rate[1] * result.total_tasks
             = 100 * result.tasks_completed * result.completion_rate[2]
        /\ result.fully_completed <=> (result.tasks_completed = result.total_tasks)
        /\ (/\ tasks = <<10, 4, 6>> /\ NumPerf = 1 /\ NumEff = 1
            /\ perf_speed = 3 /\ eff_speed = 2 /\ threshold = 4
            /\ max_cycles = 3)
           => (result.cycles_used = 3 /\ ~result.fully_completed)

\* the bounded run of the example has returned at its cap of 3, one task done
C7_Witness ==
    /\ BoundedReturned
    /\ tasks = <<10, 4, 6>> /\ NumPerf = 1 /\ NumEff = 1
    /\ perf_speed = 3 /\ eff_speed = 2
    /\ max_cycles = 3
    /\ result.tasks_completed = 1
    /\ ~result.fully_completed

RECURSIVE EnergyOf(_)
\* the sum of energy_used over a sequence of cores, each core once
EnergyOf(cores) ==
    IF cores = <<>> THEN 0 ELSE Head(cores).energy_used + EnergyOf(Tail(cores))

\* C8 (energy aggregation at the end of a run): when run_simulation or
\* run_for_max_cycles has returned, total_energy is the sum of energy_used
\* over all cores of perf_cores and eff_cores.
C8_EnergyAtReturn ==
    pc = "returned" =>
        /\ total_energy = EnergyOf(perf_cores) + EnergyOf(eff_cores)
        /\ BoundedRun => result.energy_used = total_energy

\* a bounded run has returned with tasks left and with energy used on both
\* pools
C8_Witness ==
    /\ BoundedReturned
    /\ ~result.fully_completed
    /\ EnergyOf(perf_cores) > 0
    /\ EnergyOf(eff_cores) > 0
    /\ total_energy = EnergyOf(perf_cores) + EnergyOf(eff_cores)

RECURSIVE WorkDoneOn(_)
\* the sum over the tasks 1..n of difficulty - remaining
WorkDoneOn(n) ==
    IF n = 0 THEN 0 ELSE (tasks[n] - remaining[n]) + WorkDoneOn(n - 1)

\* C10 (conservation of work): in a simulator whose difficulties are all
\* non-negative no step raises the remaining of a task, and in every state
\* the sum over all tasks of difficulty - remaining is the sum of work_done
\* over all process() calls made so far.
C10_Conservation ==
    /\ [](NonNegative => WorkDoneOn(Len(tasks)) = work_performed)
    /\ [][NonNegative => \A t \in TaskIds : remaining'[t] <= remaining[t]]_vars

\* work has been done and some task is part way through
C10_Witness ==
    /\ NonNegative
    /\ work_performed > 0
    /\ \E t \in TaskIds : 0 < remaining[t] /\ remaining[t] < tasks[t]
    /\ \E t \in TaskIds : Completed(t) /\ tasks[t] > 0
    /\ WorkDoneOn(Len(tasks)) = work_performed

\* ------------------------------------------------- where a task is held
\* how many entries of the queue q reference task t
QueueCount(q, t) == Cardinality({k \in 1..Len(q) : q[k] = t})
\* how many cores of the pool reference task t in their task slot
CoreCount(cores, t) == Cardinality({i \in 1..Len(cores) : cores[i].task = t})
Queued(t) == QueueCount(wait_queue_perf, t) + QueueCount(wait_queue_eff, t)
Running(t) == CoreCount(perf_cores, t) + CoreCount(eff_cores, t)
Done(t) == QueueCount(completed_tasks, t)

\* C11 (task invariant): every task of non-negative difficulty has
\* 0 <= remaining <= difficulty in every reachable state; every task in
\* completed_tasks has remaining = 0, and no task with remaining = 0 is in a
\* wait queue or on a core.
C11_TaskInvariant ==
    \A t \in TaskIds :
        tasks[t] >= 0 =>
            /\ 0 <= remaining[t]
            /\ remaining[t] <= tasks[t]
            /\ (Done(t) > 0 => remaining[t] = 0)
            /\ (remaining[t] = 0 => Queued(t) = 0 /\ Running(t) = 0)

\* the run in progress or returned is the only run method called so far
SingleRun == runs = 1
\* 0 queued, 1 running, 2 completed
Stage(t) == IF Queued(t) > 0 THEN 0 ELSE IF Running(t) > 0 THEN 1 ELSE 2
\* the cores that hold task t
Holders(t) ==
    {<<"P", i>> : i \in {j \in 1..NumPerf : perf_cores[j].task = t}}
        \cup {<<"E", i>> : i \in {j \in 1..NumEff : eff_cores[j].task = t}}
Busy(cores) == Cardinality({i \in 1..Len(cores) : cores[i].task # None})

\* C12 (task lifecycle within one run): in every state of a single
\* run_simulation or run_for_max_cycles, after assign_tasks, each input task
\* is in exactly one place among the two wait queues, the task slot of one
\* core and completed_tasks, and queued + running + completed = number of
\* input tasks; a step keeps a task where it is or moves it queue -> core or
\* core -> completed_tasks, never back and never from one core to another.
C12_Lifecycle ==
    /\ [](SingleRun =>
            /\ \A t \in TaskIds : Queued(t) + Running(t) + Done(t) = 1
            /\ Len(wait_queue_perf) + Len(wait_queue_eff)
                 + Busy(perf_cores) + Busy(eff_cores) + Len(completed_tasks)
                 = Len(tasks))
    /\ [][(SingleRun /\ SingleRun') =>
            \A t \in TaskIds :
                /\ Stage(t)' \in {Stage(t), Stage(t) + 1}
                /\ (Stage(t) = 1 /\ Stage(t)' = 1) => Holders(t)' = Holders(t)
                /\ (Stage(t) = 0 /\ Stage(t)' = 0) =>
                      /\ QueueCount(wait_queue_perf, t)' = QueueCount(wait_queue_perf, t)
                      /\ QueueCount(wait_queue_eff, t)' = QueueCount(wait_queue_eff, t)]_vars

\* a single run with one task queued, one on a core part way through and one
\* completed
C12_Witness ==
    /\ SingleRun
    /\ \E t \in TaskIds : Stage(t) = 0 /\ Queued(t) = 1
    /\ \E t \in TaskIds : Stage(t) = 1 /\ Running(t) = 1 /\ remaining[t] < tasks[t]
    /\ \E t \in TaskIds : Stage(t) = 2 /\ Done(t) = 1

\* run_simulation is running on a simulator without cores over a non-empty
\* task list
ZeroCoreRun == call = "run_simulation" /\ NumPerf + NumEff = 0 /\ Len(tasks) > 0

\* C13 (zero-core hang): run_simulation with num_perf = 0, num_eff = 0 and a
\* non-empty task list never returns and never raises; fewer tasks than
\* total_tasks are completed, completed_tasks stays empty, no step changes a wait queue,
\* every iteration raises cycle by exactly 1, and cycle reaches every value
\* the model follows the run to (MaxHang).
C13_ZeroCoreHang ==
    /\ [](ZeroCoreRun =>
            /\ pc \in {"while", "run_cycle"}
            /\ Len(completed_tasks) < total_tasks
            /\ completed_tasks = <<>>
            /\ Len(wait_queue_perf) + Len(wait_queue_eff) = total_tasks
            /\ total_tasks >= Len(tasks))
    /\ [][(ZeroCoreRun /\ ZeroCoreRun') =>
            /\ wait_queue_perf' = wait_queue_perf
            /\ wait_queue_eff' = wait_queue_eff
            /\ (pc = "while" => pc' = "run_cycle" /\ cycle' = cycle)
            /\ (pc = "run_cycle" => pc' = "while" /\ cycle' = cycle + 1)]_vars
    /\ ((ZeroCoreRun /\ runs = 1 /\ cycle = 0) ~> (ZeroCoreRun /\ cycle = MaxHang))

\* a new simulator without cores is several iterations into run_simulation
\* with every task still queued
C13_Witness ==
    /\ ZeroCoreRun /\ runs = 1
    /\ pc = "while"
    /\ cycle >= 3
    /\ completed_tasks = <<>>
    /\ Len(wait_queue_perf) >= 1 /\ Len(wait_queue_eff) >= 1

Max(a, b) == IF a >= b THEN a ELSE b
\* ceil(a / b) for b > 0
CeilDiv(a, b) == -((-a) \div b)
\* the largest difficulty of a non-empty task list
MaxDifficulty == CHOOSE d \in {tasks[t] : t \in TaskIds} : \A t \in TaskIds : tasks[t] <= d
\* the smallest speed among the existing cores
MinSpeed ==
    IF NumPerf = 0 THEN eff_speed
    ELSE IF NumEff = 0 THEN perf_speed
    ELSE Min(perf_speed, eff_speed)
\* run_simulation has returned on a simulator with a core and a task
RunSimulationReturned ==
    /\ pc = "returned" /\ call = "run_simulation"
    /\ NumPerf + NumEff >= 1
    /\ Len(tasks) > 0

RECURSIVE SerialCycles(_)
\* the sum over the tasks 1..n of max(1, ceil(difficulty / minSpeed))
SerialCycles(n) ==
    IF n = 0 THEN 0
    ELSE Max(1, CeilDiv(tasks[n], MinSpeed)) + SerialCycles(n - 1)

\* C14 as stated (cycle bound): when run_simulation has terminated on a
\* simulator with at least one core, cycle <= ceil(maxDifficulty / minSpeed).
\* Stated here for its plainest case, a new simulator whose difficulties are
\* all positive.
C14_CycleBound ==
    (RunSimulationReturned /\ SingleRun /\ \A t \in TaskIds : tasks[t] > 0)
        => cycle <= CeilDiv(MaxDifficulty, MinSpeed)

\* C14 as amended: when run_simulation has terminated on a simulator with at
\* least one core, cycle is at most the sum over all queued tasks of
\* max(1, ceil(difficulty / minSpeed)); every run method called on the
\* simulator queues every task once, so on a new simulator the sum is over
\* the task list and in a run that continues a bounded run it counts each
\* task twice.
C14_SerialBound ==
    RunSimulationReturned => cycle <= runs * SerialCycles(Len(tasks))

\* a run over several tasks on one core has returned after exactly the serial
\* number of cycles, more than ceil(maxDifficulty / minSpeed)
C14_Witness ==
    /\ RunSimulationReturned /\ SingleRun
    /\ Len(tasks) >= 2
    /\ cycle = SerialCycles(Len(tasks))
    /\ cycle > CeilDiv(MaxDifficulty, MinSpeed)
    /\ MaxDifficulty > 0

RECURSIVE RemainingIn(_)
\* the sum of remaining over the entries of a queue
RemainingIn(q) == IF q = <<>> THEN 0 ELSE remaining[Head(q)] + RemainingIn(Tail(q))
RECURSIVE RemainingOn(_)
\* the sum of remaining over the tasks held by a sequence of cores
RemainingOn(cores) ==
    IF cores = <<>> THEN 0
    ELSE (IF Head(cores).task = None THEN 0 ELSE remaining[Head(cores).task])
            + RemainingOn(Tail(cores))
\* W: remaining work over both wait queues and all cores, half units
RemainingWork ==
    RemainingIn(wait_queue_perf) + RemainingIn(wait_queue_eff)
        + RemainingOn(perf_cores) + RemainingOn(eff_cores)

\* C15 (estimate_remaining_cycles): the result is floor(W / avg) + 1 with
\* avg = (num_perf * perf_speed + num_eff * eff_speed) / (num_perf + num_eff)
\* from the speeds the simulator was constructed with, and infinity when
\* there is no core.  Stated in the state run_for_max_cycles returns in, where
\* the estimate has just been evaluated, for non-negative difficulties (floor
\* and int() agree there).
C15_Estimate ==
    (BoundedReturned /\ NonNegative /\ ~result.fully_completed) =>
        IF NumPerf + NumEff = 0
        THEN estimate = Infinity
        ELSE /\ estimate.kind = "int"
             /\ estimate.value =
                    (RemainingWork * (NumPerf + NumEff))
                        \div (NumPerf * perf_speed + NumEff * eff_speed) + 1

\* run_simulation called after run_for_max_cycles returned with tasks left
ContinuedRun == call = "run_simulation" /\ runs = 2

\* C16 (continuing after a bounded run): in the run_simulation that follows
\* a run_for_max_cycles with fully_completed = false, no task is held by two
\* cores or by a core and a queue at once, no wait queue holds a task that
\* is running or completed, and when the run has returned completed_tasks
\* contains each original task exactly once.  Stated for task lists whose
\* difficulties are all positive.
C16_Continue ==
    (ContinuedRun /\ \A t \in TaskIds : tasks[t] > 0) =>
        /\ \A t \in TaskIds :
              /\ Running(t) <= 1
              /\ Running(t) = 1 => Queued(t) = 0
              /\ Done(t) > 0 => Queued(t) = 0
        /\ pc = "returned" => \A t \in TaskIds : Done(t) = 1

CoreEnergy == EnergyOf(perf_cores) + EnergyOf(eff_cores)

\* C17 as stated (aggregation at any point): in every state of a run, the
\* states between cycles included, total_energy is the sum of energy_used
\* over all cores.  Stated for the states of a run in which tasks remain, on
\* task lists whose difficulties are all positive.
C17_AlwaysSum ==
    (/\ pc \in {"while", "run_cycle"}
     /\ Len(completed_tasks) < total_tasks
     /\ \A t \in TaskIds : tasks[t] > 0)
        => total_energy = CoreEnergy

\* C17 as amended: total_energy is the sum of energy_used over all cores,
\* each core counted once, whenever a run method has ended, also after a
\* second run on the same simulator; while a run is in progress
\* total_energy is not updated and still has the value of the last
\* aggregation (0 on a new simulator).
C17_SumWhenRunEnds ==
    /\ pc \in {"returned", "raised"} => total_energy = CoreEnergy
    /\ pc \in {"while", "run_cycle"} =>
          total_energy = (IF runs = 1 THEN 0 ELSE result.energy_used)
    /\ pc = "constructed" => total_energy = 0 /\ CoreEnergy = 0

\* a run_simulation that continued a partial bounded run has returned: energy
\* was used in both runs and total_energy is the sum over the cores
C17_Witness ==
    /\ ContinuedRun /\ pc = "returned"
    /\ result.energy_used > 0
    /\ total_energy > result.energy_used
    /\ total_energy = CoreEnergy

\* C18 (energy monotonicity): no step lowers the energy_used of a core, for
\* any task list the constructor accepts, zero and negative difficulties
\* included.
C18_EnergyMonotone ==
    [][/\ \A i \in 1..NumPerf :
             perf_cores'[i].energy_used >= perf_cores[i].energy_used
       /\ \A i \in 1..NumEff :
             eff_cores'[i].energy_used >= eff_cores[i].energy_used]_vars

\* the change of energy_used over a step, summed over the cores of a pool
\* that hold task t before the step
RECURSIVE EnergyGainOn(_, _, _)
EnergyGainOn(before, after, t) ==
    IF before = <<>> THEN 0
    ELSE (IF Head(before).task = t
          THEN Head(after).energy_used - Head(before).energy_used ELSE 0)
            + EnergyGainOn(Tail(before), Tail(after), t)

\* C19 (energy and progress accrue only in process()): a step other than
\* run_cycle (assign_tasks at the start of a run, assign_to_cores, the
\* return) changes no remaining and no energy_used.  In a run_cycle step a
\* core that is idle keeps its energy_used, a task that no core holds keeps
\* its remaining, and for every task on a core remaining drops by the work
\* done on it while the cores that hold it gain exactly that work times
\* their energy multiplier.
C19_OnlyInProcess ==
    [][/\ pc # "run_cycle" =>
             /\ remaining' = remaining
             /\ \A i \in 1..NumPerf :
                   perf_cores'[i].energy_used = perf_cores[i].energy_used
             /\ \A i \in 1..NumEff :
                   eff_cores'[i].energy_used = eff_cores[i].energy_used
       /\ pc = "run_cycle" =>
             /\ \A i \in 1..NumPerf :
                   perf_cores[i].task = None =>
                       perf_cores'[i].energy_used = perf_cores[i].energy_used
             /\ \A i \in 1..NumEff :
                   eff_cores[i].task = None =>
                       eff_cores'[i].energy_used = eff_cores[i].energy_used
             /\ \A t \in TaskIds :
                   /\ Running(t) = 0 => remaining'[t] = remaining[t]
                   /\ eff_energy * EnergyGainOn(perf_cores, perf_cores', t)
                        + perf_energy * EnergyGainOn(eff_cores, eff_cores', t)
                        = perf_energy * eff_energy * (remaining[t] - remaining'[t])]_vars

\* a cycle is about to run with one core idle that has used energy before,
\* another core busy, and a task waiting in a queue
C19_Witness ==
    /\ pc = "run_cycle"
    /\ cycle >= 1
    /\ \E i \in 1..NumPerf : perf_cores[i].task # None /\ remaining[perf_cores[i].task] > 0
    /\ \E i \in 1..NumEff : eff_cores[i].task = None /\ eff_cores[i].energy_used > 0
    /\ wait_queue_perf # <<>>

\* C20 (no core holds a completed task): in every state of a run no core's
\* task slot references a task whose remaining is 0, and the run_cycle step
\* that brings the remaining of a task to 0 takes it off a core and appends
\* it to completed_tasks in that same step.
C20_NoCompletedOnCore ==
    /\ [](runs >= 1 =>
            /\ \A i \in 1..NumPerf :
                  perf_cores[i].task # None => remaining[perf_cores[i].task] # 0
            /\ \A i \in 1..NumEff :
                  eff_cores[i].task # None => remaining[eff_cores[i].task] # 0)
    /\ [][\A t \in TaskIds :
            (remaining[t] # 0 /\ remaining'[t] = 0) =>
                /\ pc = "run_cycle"
                /\ Running(t)' < Running(t)
                /\ Done(t)' > Done(t)]_vars

\* the pools as one sequence, perf_cores + eff_cores
AllCores == perf_cores \o eff_cores

\* C21 (core state machine): a core goes idle -> busy only in an
\* assign_to_cores step; assign_to_cores, in its primary pass and in both
\* fallback passes, never changes the task of a busy core; a core goes busy
\* -> idle only in a run_cycle step, in which process() left the remaining of
\* its task <= 0; until then a busy core keeps the same task, cycle after
\* cycle; no other step touches a task slot.
C21_CoreStateMachine ==
    [][\A i \in 1..Len(AllCores) :
          LET before == AllCores[i].task
              after == AllCores'[i].task
          IN  /\ (before = None /\ after # None) => (pc = "while" /\ pc' = "run_cycle")
              /\ (before # None /\ pc = "while") => after = before
              /\ (before # None /\ after = None) =>
                    (pc = "run_cycle" /\ remaining'[before] <= 0)
              /\ (before # None /\ after # None) => after = before
              /\ pc \notin {"while", "run_cycle"} => after = before]_vars

\* between two cycles one core still holds the task it was given at least two
\* cycles ago, another core has finished a task and is idle, and a task waits
\* in a queue
C21_Witness ==
    /\ pc = "while" /\ cycle >= 2
    /\ \E i \in 1..Len(AllCores) :
          /\ AllCores[i].task # None
          /\ remaining[AllCores[i].task] > 0
          /\ tasks[AllCores[i].task] - remaining[AllCores[i].task] >= 2 * eff_speed
    /\ \E i \in 1..Len(AllCores) :
          AllCores[i].task = None /\ AllCores[i].energy_used > 0
    /\ Len(wait_queue_perf) + Len(wait_queue_eff) >= 1

\* q lists task indices in increasing (input) order
InInputOrder(q) == \A j, k \in 1..Len(q) : j < k => q[j] < q[k]
\* the first run method of the simulator has just called assign_tasks
AfterAssignTasks == runs = 1 /\ pc = "while" /\ cycle = 0

\* C22 (partition): after one assign_tasks call every input task is in
\* exactly one wait queue, in wait_queue_perf iff difficulty > threshold and
\* in wait_queue_eff iff difficulty <= threshold (a difficulty equal to the
\* threshold goes to the eff queue); each queue is in input order and the two
\* lengths add up to the number of input tasks.
C22_Partition ==
    AfterAssignTasks =>
        /\ \A t \in TaskIds :
              /\ QueueCount(wait_queue_perf, t) = (IF tasks[t] > threshold THEN 1 ELSE 0)
              /\ QueueCount(wait_queue_eff, t) = (IF tasks[t] <= threshold THEN 1 ELSE 0)
        /\ InInputOrder(wait_queue_perf)
        /\ InInputOrder(wait_queue_eff)
        /\ Len(wait_queue_perf) + Len(wait_queue_eff) = Len(tasks)
        /\ total_tasks = Len(tasks)

\* assign_tasks has split a list that holds a task at the threshold between
\* one above and one below it
C22_Witness ==
    /\ AfterAssignTasks
    /\ \E a, b, c \in TaskIds :
          /\ a < b /\ b < c
          /\ tasks[a] > threshold /\ tasks[b] = threshold /\ tasks[c] > threshold
          /\ wait_queue_perf = <<a, c>>
          /\ wait_queue_eff = <<b>>

RECURSIVE NewlyAssigned(_, _)
\* the tasks of the cores that are idle in `before` and busy in `after`, in
\* core order
NewlyAssigned(before, after) ==
    IF before = <<>> THEN <<>>
    ELSE (IF Head(before).task = None /\ Head(after).task # None
          THEN <<Head(after).task>> ELSE <<>>)
            \o NewlyAssigned(Tail(before), Tail(after))
\* the entries a step took from the head of a queue
TakenFrom(before, after) == SubSeq(before, 1, Len(before) - Len(after))
\* t has been given to a core
Dispatched(t) == ran_on[t] # {}
SameQueue(t1, t2) == Heavy(t1) <=> Heavy(t2)

\* C23 (FIFO dispatch): of two tasks routed to the same wait queue, the one
\* earlier in the input list is given to a core in the same assign_to_cores
\* call as the later one or in an earlier call, never later; every
\* assign_to_cores call takes its tasks from the heads of the queues and
\* gives them to the idle cores of a pool in increasing core index, the
\* primary queue first and then, in a fallback, the other queue.
C23_FifoDispatch ==
    /\ [](\A t1, t2 \in TaskIds :
            (t1 < t2 /\ SameQueue(t1, t2) /\ Dispatched(t2)) => Dispatched(t1))
    /\ [][(pc = "while" /\ pc' = "run_cycle") =>
            LET taken_perf == TakenFrom(wait_queue_perf, wait_queue_perf')
                taken_eff == TakenFrom(wait_queue_eff, wait_queue_eff')
            IN  /\ wait_queue_perf = taken_perf \o wait_queue_perf'
                /\ wait_queue_eff = taken_eff \o wait_queue_eff'
                /\ NewlyAssigned(perf_cores, perf_cores')
                     = (IF NumPerf > 0 THEN taken_perf ELSE <<>>)
                         \o (IF NumEff = 0 THEN taken_eff ELSE <<>>)
                /\ NewlyAssigned(eff_cores, eff_cores')
                     = (IF NumEff > 0 THEN taken_eff ELSE <<>>)
                         \o (IF NumPerf = 0 THEN taken_perf ELSE <<>>)]_vars

\* after a later dispatch on a simulator without E cores the first two tasks
\* of the perf queue have been given to cores and a third still waits
C23_Witness ==
    /\ pc = "run_cycle" /\ cycle >= 1
    /\ NumEff = 0
    /\ \E t1, t2, t3 \in TaskIds :
          /\ t1 < t2 /\ t2 < t3
          /\ Heavy(t1) /\ Heavy(t2) /\ Heavy(t3)
          /\ Dispatched(t1) /\ Dispatched(t2) /\ ~Dispatched(t3)
          /\ Queued(t3) = 1
    /\ wait_queue_perf # <<>>

RECURSIVE NewlyIdle(_, _)
\* the tasks of the cores that are busy in `before` and idle in `after`, in
\* core order
NewlyIdle(before, after) ==
    IF before = <<>> THEN <<>>
    ELSE (IF Head(before).task # None /\ Head(after).task = None
          THEN <<Head(before).task>> ELSE <<>>)
            \o NewlyIdle(Tail(before), Tail(after))

\* C24 (completion order): completed_tasks only grows at its end; a run_cycle
\* step appends the tasks that finished in it in the order of their cores in
\* perf_cores followed by eff_cores, so tasks of an earlier cycle come before
\* tasks of a later one; no other step changes it; in the run of a newly
\* constructed simulator no task is appended more than once.
C24_CompletionOrder ==
    /\ [][/\ Len(completed_tasks') >= Len(completed_tasks)
          /\ SubSeq(completed_tasks', 1, Len(completed_tasks)) = completed_tasks
          /\ pc = "run_cycle" =>
                completed_tasks' = completed_tasks \o NewlyIdle(AllCores, AllCores')
          /\ pc # "run_cycle" => completed_tasks' = completed_tasks]_vars
    /\ [](SingleRun => \A t \in TaskIds : Done(t) <= 1)

\* two tasks finished in one cycle, the one on the P core listed first
\* although it comes later in the input, after a task of an earlier cycle
C24_Witness ==
    /\ SingleRun /\ pc = "while"
    /\ Len(completed_tasks) >= 3
    /\ \E k \in 2..Len(completed_tasks) - 1 :
          /\ completed_tasks[k] > completed_tasks[k + 1]
          /\ "P" \in ran_on[completed_tasks[k]]
          /\ "E" \in ran_on[completed_tasks[k + 1]]

\* -------------------------------------------------- per-task occupancy
\* the speed of the core type that took task t
SpeedOf(t) == IF "P" \in ran_on[t] THEN perf_speed ELSE eff_speed

\* the cycles task t has been processed in since its dispatch, counted in a
\* state between two cycles
CyclesOn(t) == cycle - held[t].first + 1

\* C25 (per-task occupancy): in the run of a newly constructed simulator a
\* task of difficulty d > 0 dispatched to a core of speed s is processed in
\* the cycle of its dispatch, loses min(remaining, s) in every cycle it is on
\* the core, and is detached after exactly ceil(d / s) consecutive cycles; a
\* core that is idle after a dispatch has left its own queue empty, so a
\* freed core takes its next task at the dispatch of the following cycle.
C25_Occupancy ==
    /\ [](SingleRun =>
            \A t \in TaskIds : tasks[t] > 0 =>
                /\ (Running(t) > 0 /\ pc = "run_cycle") =>
                        /\ held[t].first >= 1 /\ held[t].first <= cycle + 1
                        /\ remaining[t] > 0
                        /\ remaining[t] = tasks[t] - (cycle + 1 - held[t].first) * SpeedOf(t)
                /\ (Running(t) > 0 /\ pc = "while") =>
                        /\ remaining[t] > 0
                        /\ remaining[t] = tasks[t] - CyclesOn(t) * SpeedOf(t)
                /\ Done(t) > 0 =>
                        /\ Running(t) = 0
                        /\ held[t].last - held[t].first + 1 = CeilDiv(tasks[t], SpeedOf(t)))
    /\ [][SingleRun =>
            /\ pc = "run_cycle" =>
                  \A t \in TaskIds : (tasks[t] > 0 /\ Running(t) > 0) =>
                      /\ remaining'[t] = remaining[t] - Min(remaining[t], SpeedOf(t))
                      /\ (held[t].first = cycle + 1) => remaining[t] = tasks[t]
            /\ (pc = "while" /\ pc' = "run_cycle") =>
                  /\ \A i \in 1..NumPerf :
                        /\ perf_cores'[i].task = None => wait_queue_perf' = <<>>
                        /\ (perf_cores[i].task = None /\ perf_cores'[i].task # None) =>
                              held'[perf_cores'[i].task].first = cycle + 1
                  /\ \A i \in 1..NumEff :
                        /\ eff_cores'[i].task = None => wait_queue_eff' = <<>>
                        /\ (eff_cores[i].task = None /\ eff_cores'[i].task # None) =>
                              held'[eff_cores'[i].task].first = cycle + 1]_vars

\* a task of 3 work units left a P core of speed 2.0 after its two cycles
\* (2.0 and then the remaining 1.0), and in the dispatch of the next cycle
\* that core took the task that had been waiting behind it
C25_Witness ==
    /\ SingleRun /\ pc = "run_cycle"
    /\ NumPerf = 1
    /\ \E t, u \in TaskIds :
          /\ tasks[t] = 3 * Unit /\ perf_speed = 2 * Unit
          /\ "P" \in ran_on[t]
          /\ Done(t) = 1
          /\ held[t].last = held[t].first + 1
          /\ perf_cores[1].task = u /\ tasks[u] > 0
          /\ held[u].first = held[t].last + 1
          /\ cycle = held[t].last

\* ------------------------------------- bounded and unbounded runs agree
\* the simulator as run_simulation finds it after assign_tasks() on a new
\* simulator with these tasks and core counts
AfterAssign ==
    The({[perf_cores |-> [i \in 1..NumPerf |-> NewCore],
          eff_cores |-> [i \in 1..NumEff |-> NewCore],
          wait_queue_perf |-> q.wait_queue_perf,
          wait_queue_eff |-> q.wait_queue_eff,
          remaining |-> tasks,
          completed_tasks |-> <<>>,
          cycle |-> 0,
          total_tasks |-> Len(q.wait_queue_perf) + Len(q.wait_queue_eff)] :
            q \in {assign_tasks(tasks, threshold, <<>>, <<>>, 1)}})

\* one pass of the loop body of run_simulation: assign_to_cores(),
\* run_cycle() and the cycle counter
loop_body(st) ==
    The({The({[perf_cores |-> c.perf_cores,
               eff_cores |-> c.eff_cores,
               wait_queue_perf |-> a.wait_queue_perf,
               wait_queue_eff |-> a.wait_queue_eff,
               remaining |-> c.remaining,
               completed_tasks |-> c.completed_tasks,
               cycle |-> st.cycle + 1,
               total_tasks |-> st.total_tasks] :
                 c \in {run_cycle(a.perf_cores, a.eff_cores, st.remaining,
                                  st.completed_tasks)}}) :
           a \in {assign_to_cores(st.perf_cores, st.eff_cores,
                                  st.wait_queue_perf, st.wait_queue_eff)}})

RECURSIVE run_simulation_loop(_, _)
\* `while len(self.completed_tasks) < total_tasks:` of run_simulation from
\* state st, followed for at most n passes
run_simulation_loop(st, n) ==
    IF n = 0 \/ ~(Len(st.completed_tasks) < st.total_tasks) THEN st
    ELSE The({run_simulation_loop(nxt, n - 1) : nxt \in {loop_body(st)}})

\* the part of the current state that the loop works on
LoopState ==
    [perf_cores |-> perf_cores, eff_cores |-> eff_cores,
     wait_queue_perf |-> wait_queue_perf, wait_queue_eff |-> wait_queue_eff,
     remaining |-> remaining, completed_tasks |-> completed_tasks,
     cycle |-> cycle, total_tasks |-> total_tasks]

\* a run on a new simulator with a non-empty task list and at least one core
\* has returned
ReturnedFrom(name) ==
    /\ SingleRun /\ call = name /\ pc = "returned"
    /\ Len(tasks) > 0
    /\ NumPerf + NumEff >= 1

\* C26 (bounded and unbounded runs agree): for a non-empty task list and at
\* least one core, run_simulation on a new simulator returns in the state
\* that K passes of its loop produce, K being the first pass count after
\* which every task is completed; run_for_max_cycles(M) on the same inputs
\* returns in the state that min(M, K) passes of that loop produce (cores
\* with their tasks and energy_used, remaining, queues, completed_tasks and
\* cycle); and for M >= K it reports cycles_used = K <= M, fully_completed
\* and the total energy of run_simulation.
C26_BoundedAgrees ==
    (ReturnedFrom("run_simulation") \/ ReturnedFrom("run_for_max_cycles")) =>
        \E finished \in {run_simulation_loop(AfterAssign, MaxCycle)} :
            /\ Len(finished.completed_tasks) = finished.total_tasks
            /\ \A n \in 0..finished.cycle - 1 :
                    run_simulation_loop(AfterAssign, n).cycle = n
            /\ call = "run_simulation" =>
                    /\ LoopState = finished
                    /\ total_energy =
                          sum_core_energy(finished.perf_cores, finished.eff_cores)
            /\ call = "run_for_max_cycles" =>
                    /\ LoopState =
                          run_simulation_loop(AfterAssign,
                                              Min(max_cycles, finished.cycle))
                    /\ cycle = Min(max_cycles, finished.cycle)
                    /\ result.cycles_used = cycle
                    /\ max_cycles >= finished.cycle =>
                          /\ result.cycles_used = finished.cycle
                          /\ result.cycles_used <= max_cycles
                          /\ result.fully_completed
                          /\ result.energy_used =
                                sum_core_energy(finished.perf_cores,
                                                finished.eff_cores)
                    /\ max_cycles < finished.cycle => ~result.fully_completed

\* the excess-cycles scenario: run_for_max_cycles with a cap above the two
\* cycles the tasks need returned early, fully completed
C26_Witness ==
    /\ ReturnedFrom("run_for_max_cycles")
    /\ result.cycles_used = 2
    /\ max_cycles > result.cycles_used
    /\ result.fully_completed
    /\ result.energy_used > 0

\* ---------------------------------------------------- work conservation
AllPositive == \A t \in TaskIds : tasks[t] > 0

IdleIn(cores) == \E i \in 1..Len(cores) : cores[i].task = None

\* C27 (work conservation within a pool): right after every
\* assign_to_cores call, in every run, an idle P core means that
\* wait_queue_perf is empty and, when there is no E core, that
\* wait_queue_eff is empty too, and likewise for an idle E core; and in the
\* run of a newly constructed simulator with at least one core and positive
\* difficulties every cycle has a busy core and performs positive work.
C27_WorkConserving ==
    /\ [](pc = "run_cycle" =>
            /\ IdleIn(perf_cores) =>
                  /\ wait_queue_perf = <<>>
                  /\ NumEff = 0 => wait_queue_eff = <<>>
            /\ IdleIn(eff_cores) =>
                  /\ wait_queue_eff = <<>>
                  /\ NumPerf = 0 => wait_queue_perf = <<>>)
    /\ [][(/\ SingleRun /\ pc = "run_cycle"
           /\ NumPerf + NumEff >= 1 /\ AllPositive) =>
              /\ Busy(perf_cores) + Busy(eff_cores) >= 1
              /\ work_performed' > work_performed]_vars

\* on two P cores and no E core a dispatch left one P core idle with both
\* queues empty while the other P core works on a light task, after an
\* earlier cycle
C27_Witness ==
    /\ SingleRun /\ pc = "run_cycle"
    /\ AllPositive /\ cycle >= 1
    /\ NumPerf = 2 /\ NumEff = 0
    /\ perf_cores[1].task # None /\ Light(perf_cores[1].task)
    /\ perf_cores[2].task = None
    /\ wait_queue_perf = <<>> /\ wait_queue_eff = <<>>

\* ------------------------------------------- fallback after the primary pass
\* C28 (fallback runs after the primary pass): with no E core, a dispatch
\* takes a task from wait_queue_eff for a P core only if it leaves
\* wait_queue_perf empty, and the tasks it takes from wait_queue_perf go to
\* P cores that come before the ones given tasks of wait_queue_eff, so no
\* waiting heavy task is passed over for a light one; symmetrically, with no
\* P core, for tasks of wait_queue_perf on E cores.
C28_FallbackAfterPrimary ==
    [][(pc = "while" /\ pc' = "run_cycle") =>
          /\ (NumEff = 0 /\ Len(wait_queue_eff') < Len(wait_queue_eff)) =>
                /\ wait_queue_perf' = <<>>
                /\ NewlyAssigned(perf_cores, perf_cores') =
                      wait_queue_perf \o TakenFrom(wait_queue_eff, wait_queue_eff')
          /\ (NumPerf = 0 /\ Len(wait_queue_perf') < Len(wait_queue_perf)) =>
                /\ wait_queue_eff' = <<>>
                /\ NewlyAssigned(eff_cores, eff_cores') =
                      wait_queue_eff \o TakenFrom(wait_queue_perf, wait_queue_perf')]_vars

\* with two P cores and no E core one dispatch gave the first P core the
\* heavy task and then, the perf queue being empty, the second P core a
\* light task, while another light task still waits
C28_Witness ==
    /\ pc = "run_cycle"
    /\ NumPerf = 2 /\ NumEff = 0
    /\ perf_cores[1].task # None /\ Heavy(perf_cores[1].task)
    /\ perf_cores[2].task # None /\ Light(perf_cores[2].task)
    /\ held[perf_cores[1].task].first = cycle + 1
    /\ held[perf_cores[2].task].first = cycle + 1
    /\ wait_queue_perf = <<>> /\ wait_queue_eff # <<>>

====
